---- MODULE Spec2Model ----
(***************************************************************************)
(* The Poseidon sponge gadget (PoseidonSpongeVar) of                       *)
(* src/poseidon/constraints.rs as a state machine.                         *)
(*                                                                         *)
(* The sponge owns a state vector of rate + capacity field elements and a  *)
(* mode (Absorbing / Squeezing) carrying a cursor into the rate portion.   *)
(* Every public operation (absorb, squeeze_field_elements, squeeze_bytes,  *)
(* squeeze_bits) is one action.  Field elements are residues modulo a      *)
(* small prime; the circuit backend is abstracted to the values it         *)
(* computes and to the one thing it can do besides: fail.                  *)
(***************************************************************************)
EXTENDS Integers, Sequences, FiniteSets, TLC

(***************************************************************************)
(* Parameters.                                                             *)
(***************************************************************************)
\* F: PrimeField -- the modulus of the (here: small) prime field.
P == 5
\* Width of a byte in bits, scaled down with the field (8 in the source).
ByteBits == 2
rate == 2
capacity == 1
full_rounds == 2
partial_rounds == 1
alpha == 3
\* ark[round_num][state_element_index], mds[i][j]; sequences are 1-based.
ark == << <<1, 2, 3>>, <<4, 0, 1>>, <<2, 3, 4>>, <<3, 1, 0>>,
         <<0, 4, 2>>, <<1, 3, 3>>, <<2, 0, 4>> >>
mds == << <<2, 3, 1>>, <<1, 2, 3>>, <<3, 1, 2>> >>

\* Bounds of the explored inputs.
MaxAbsorbLen == 2
MaxSqueeze == 4
MaxBytes == 3
MaxBits == 3
MaxFail == 2
\* Bounds of the round numbers a sponge is constructed with when the
\* permutation is examined on its own.
MaxFullRounds == 3
MaxPartialRounds == 2

Field == 0 .. (P - 1)
Width == rate + capacity

(***************************************************************************)
(* Field arithmetic and the conversions of a field element.                *)
(***************************************************************************)
RECURSIVE pow_by_constant(_, _)
pow_by_constant(x, e) ==
    IF e = 0 THEN 1 ELSE (x * pow_by_constant(x, e - 1)) % P

RECURSIVE BitLen(_)
BitLen(v) == IF v = 0 THEN 0 ELSE 1 + BitLen(v \div 2)

\* F::Params::MODULUS_BITS and F::Params::CAPACITY (= MODULUS_BITS - 1).
MODULUS_BITS == BitLen(P)
CAPACITY == MODULUS_BITS - 1

RECURSIVE Digits(_, _, _)
\* the k low-order base-b digits of v, least significant first
Digits(v, b, k) ==
    IF k = 0 THEN << >> ELSE <<v % b>> \o Digits(v \div b, b, k - 1)

\* little-endian bits of an element: MODULUS_BITS booleans (as 0/1)
to_bits_le(x) == Digits(x, 2, MODULUS_BITS)
\* little-endian bytes of an element
to_bytes(x) ==
    Digits(x, 2 ^ ByteBits, (MODULUS_BITS + ByteBits - 1) \div ByteBits)

\* a plausible slip: the sequence is not cut
Take_nothing_cut(s, n) == s

Take(s, n) == SubSeq(s, 1, IF n < Len(s) THEN n ELSE Len(s))

(***************************************************************************)
(* The permutation.                                                        *)
(***************************************************************************)
NumRounds == full_rounds + partial_rounds

\* Result of a fallible step on a state vector.
Ok(st) == [ok |-> TRUE, state |-> st]
Err(st) == [ok |-> FALSE, state |-> st]

\* apply_s_box: fails (pow_by_constant returns Err) when `fails`; the
\* failure is on the first element the step raises.
apply_s_box(st, is_full_round, fails) ==
    IF fails THEN Err(st)
    ELSE IF is_full_round
         THEN Ok([i \in 1 .. Len(st) |-> pow_by_constant(st[i], alpha)])
         ELSE Ok([st EXCEPT ![Len(st)] = pow_by_constant(st[Len(st)], alpha)])

apply_ark(st, round_number) ==
    Ok([i \in 1 .. Len(st) |-> (st[i] + ark[round_number + 1][i]) % P])

RECURSIVE Dot(_, _, _)
Dot(row, st, j) ==
    IF j = 0 THEN 0 ELSE (Dot(row, st, j - 1) + st[j] * row[j]) % P

apply_mds(st) ==
    Ok([i \in 1 .. Len(st) |-> Dot(mds[i], st, Len(st))])

\* a plausible slip: the half is rounded up
full_rounds_over_2_rounded_up(full) == (full + 1) \div 2

\* let full_rounds_over_2 = self.full_rounds / 2
full_rounds_over_2(full) == full \div 2

\* round i of a sponge with `full` full and `partial` partial rounds is a
\* full round in the first and the third loop of permute
IsFullRoundOf(full, partial, i) ==
    \/ i < full_rounds_over_2(full)
    \/ i >= full_rounds_over_2(full) + partial

IsFullRound(i) == IsFullRoundOf(full_rounds, partial_rounds, i)

RECURSIVE RoundsOf(_, _, _, _, _, _)
\* rounds i .. full+partial-1 on the local copy; failRound = the round
\* whose S-box fails (-1: none); log = what each finished round did
RoundsOf(full, partial, local, i, failRound, log) ==
    IF i >= full + partial
    THEN [ok |-> TRUE, state |-> local, log |-> log]
    ELSE LET a == apply_ark(local, i)
             is_full_round == IsFullRoundOf(full, partial, i)
             s == apply_s_box(a.state, is_full_round, failRound = i)
             m == apply_mds(s.state)
         IN  IF ~s.ok
             THEN [ok |-> FALSE, state |-> s.state, log |-> log]
             ELSE RoundsOf(full, partial, m.state, i + 1, failRound,
                           Append(log, [round |-> i, ark |-> a.state,
                                        s_box |-> s.state,
                                        mds |-> m.state]))

RECURSIVE Rounds(_, _, _)
\* rounds i .. NumRounds-1 of this sponge on the local copy; failRound =
\* the round whose S-box fails (-1: none)
Rounds(local, i, failRound) ==
    IF i >= NumRounds THEN Ok(local)
    ELSE LET a == apply_ark(local, i)
             s == apply_s_box(a.state, IsFullRound(i), failRound = i)
         IN  IF ~s.ok THEN s
             ELSE Rounds(apply_mds(s.state).state, i + 1, failRound)

\* one permute call of a sponge constructed with the given round numbers
Permutation(full, partial, st, failRound) ==
    LET r == RoundsOf(full, partial, st, 0, failRound, << >>)
    IN  [full_rounds |-> full, partial_rounds |-> partial, input |-> st,
         ok |-> r.ok, log |-> r.log,
         out |-> IF r.ok THEN r.state ELSE st]

\* a plausible slip: the rounds run on self.state itself
permute_in_place(st, failRound) ==
    Rounds(st, 0, failRound)

\* permute: the rounds run on a clone; self.state = state only at the end
permute(st, failRound) ==
    LET r == Rounds(st, 0, failRound)
    IN  IF r.ok THEN Ok(r.state) ELSE Err(st)

(***************************************************************************)
(* Execution of one public operation.                                      *)
(*                                                                         *)
(* A run of an operation threads a record x through the code:              *)
(*   state, mode  the sponge's fields                                      *)
(*   returned     rate indices of the current permutation output already   *)
(*                handed out by a squeeze (history, reset by permute)      *)
(*   trace        what the operation did, in order                         *)
(*   calls        number of permute calls made by the operation so far     *)
(*   err          a `?` has propagated an error                            *)
(*   panic        the operation panicked (arithmetic overflow of a usize)  *)
(*   out          elements copied to the output buffer                     *)
(*   elems        src_elements of squeeze_bytes / squeeze_bits             *)
(*   dup          the operation returned a rate position twice             *)
(*   failState    self.state at the call of the permute that failed        *)
(***************************************************************************)
Absorbing(i) == [kind |-> "Absorbing", idx |-> i]
Squeezing(i) == [kind |-> "Squeezing", idx |-> i]

Event(e, i) == [ev |-> e, idx |-> i, rem |-> 0]

\* a loop iteration that did not return: it began at rate_start_index and
\* leaves `remaining` elements for the iterations after it
Chunk(rate_start_index, remaining) ==
    [ev |-> "chunk", idx |-> rate_start_index, rem |-> remaining]

\* a plausible slip: the Result of a step is dropped instead of propagated
Stopped_on_panic_only(x) == x.panic

\* the operation has stopped: nothing after this point of the code runs
Stopped(x) == x.err \/ x.panic

\* Where the circuit backend fails during an operation: 0 nowhere, -1 in a
\* conversion (to_sponge_field_elements, to_bytes, to_bits_le), f > 0 in
\* the f-th apply_s_box the operation performs (each permute performs
\* NumRounds of them).
NoFail == 0
ConvFail == -1
FailPoints == ConvFail .. MaxFail

\* self.permute()? at a call site
permute_call(x, fail) ==
    LET c == x.calls + 1
        failRound == fail - x.calls * NumRounds - 1
        r == permute(x.state,
                     IF failRound \in 0 .. (NumRounds - 1)
                     THEN failRound ELSE -1)
    IN  IF r.ok
        THEN [x EXCEPT !.state = r.state, !.calls = c, !.returned = {},
                       !.trace = Append(@, Event("permute", -1))]
        ELSE [x EXCEPT !.state = r.state, !.calls = c, !.err = TRUE,
                       !.failState = x.state,
                       !.trace = Append(@, Event("permute_failed", -1))]

\* a plausible slip: the bound is the length of the state, not the rate
fits_whole_state(rate_start_index, len) ==
    rate_start_index + len <= rate + capacity

\* a plausible slip: `<` for `<=`
fits_strictly(rate_start_index, len) == rate_start_index + len < rate

\* `rate_start_index + remaining.len() <= self.rate`: the rest fits into the
\* rate portion
fits(rate_start_index, len) == rate_start_index + len <= rate

\* a plausible slip: the cursor is set one past the last position used
next_index_off_by_one(rate_start_index, len) == rate_start_index + len + 1

\* the cursor stored in the mode when an operation finishes
next_index(rate_start_index, len) == rate_start_index + len

RECURSIVE AddRange_overwrite(_, _, _, _)
\* a plausible slip: `=` for `+=`
AddRange_overwrite(x, rate_start_index, elements, n) ==
    IF n = 0 THEN x
    ELSE LET y == AddRange_overwrite(x, rate_start_index, elements, n - 1)
             k == (n - 1) + rate_start_index
         IN  [y EXCEPT !.state[k + 1] = elements[n],
                       !.trace = Append(@, Event("add", k))]

RECURSIVE AddRange(_, _, _, _)
\* self.state[i + rate_start_index] += element, for the first n elements
AddRange(x, rate_start_index, elements, n) ==
    IF n = 0 THEN x
    ELSE LET y == AddRange(x, rate_start_index, elements, n - 1)
             k == (n - 1) + rate_start_index
         IN  [y EXCEPT !.state[k + 1] = (@ + elements[n]) % P,
                       !.trace = Append(@, Event("add", k))]

RECURSIVE absorb_loop(_, _, _, _)
absorb_loop(x, rate_start_index, remaining_elements, fail) ==
    IF fits(rate_start_index, Len(remaining_elements))
    THEN [AddRange(x, rate_start_index, remaining_elements,
                   Len(remaining_elements))
            EXCEPT !.mode = Absorbing(next_index(rate_start_index,
                                                 Len(remaining_elements)))]
    ELSE IF rate_start_index > rate THEN [x EXCEPT !.panic = TRUE]
    ELSE LET num_elements_absorbed == rate - rate_start_index
             x0 == AddRange(x, rate_start_index, remaining_elements,
                            num_elements_absorbed)
             x1 == [x0 EXCEPT !.trace =
                       Append(@, Chunk(rate_start_index,
                                       Len(remaining_elements)
                                           - num_elements_absorbed))]
             x2 == permute_call(x1, fail)
         IN  IF Stopped(x2) THEN x2
             ELSE absorb_loop(x2, 0,
                     SubSeq(remaining_elements, num_elements_absorbed + 1,
                            Len(remaining_elements)), fail)

absorb_internal(x, rate_start_index, elements, fail) ==
    absorb_loop([x EXCEPT !.trace =
                    Append(@, Event("absorb_internal", rate_start_index))],
                rate_start_index, elements, fail)

RECURSIVE ReadRange(_, _, _)
\* output[..n].clone_from_slice(&self.state[start .. start + n])
ReadRange(x, rate_start_index, n) ==
    IF n = 0 THEN x
    ELSE LET y == ReadRange(x, rate_start_index, n - 1)
             k == (n - 1) + rate_start_index
         IN  [y EXCEPT !.out = Append(@, y.state[k + 1]),
                       !.dup = @ \/ (k \in y.returned),
                       !.returned = @ \cup {k},
                       !.trace = Append(@, Event("read", k))]

\* a plausible slip: permute after every chunk that leaves output owed
permute_needed_always(remaining_len) == TRUE

\* `if remaining_output.len() != self.rate`, tested before the slice is cut
permute_needed(remaining_len) == remaining_len # rate

RECURSIVE squeeze_loop(_, _, _, _)
squeeze_loop(x, rate_start_index, remaining_len, fail) ==
    IF fits(rate_start_index, remaining_len)
    THEN [ReadRange(x, rate_start_index, remaining_len)
            EXCEPT !.mode = Squeezing(next_index(rate_start_index,
                                                 remaining_len))]
    ELSE IF rate_start_index > rate THEN [x EXCEPT !.panic = TRUE]
    ELSE LET num_elements_squeezed == rate - rate_start_index
             x0 == ReadRange(x, rate_start_index, num_elements_squeezed)
             x1 == [x0 EXCEPT !.trace =
                       Append(@, Chunk(rate_start_index,
                                       remaining_len
                                           - num_elements_squeezed))]
             x2 == IF permute_needed(remaining_len)
                   THEN permute_call(x1, fail) ELSE x1
         IN  IF Stopped(x2) THEN x2
             ELSE squeeze_loop(x2, 0, remaining_len - num_elements_squeezed,
                               fail)

squeeze_internal(x, rate_start_index, output_len, fail) ==
    squeeze_loop([x EXCEPT !.trace =
                    Append(@, Event("squeeze_internal", rate_start_index))],
                 rate_start_index, output_len, fail)

\* a plausible slip: the cursor is used as it is, without the boundary test
cursor_at_rate_never(index) == FALSE

\* `if absorb_index == self.rate` / `if squeeze_index == self.rate`
cursor_at_rate(index) == index = rate

\* a plausible slip: an empty input is handled like any other
input_is_empty_never(input) == FALSE

\* `if input.is_empty()`
input_is_empty(input) == input = << >>

absorb(x, input, fail) ==
    IF fail = ConvFail THEN [x EXCEPT !.err = TRUE]
    ELSE IF input_is_empty(input) THEN x
    ELSE IF x.mode.kind = "Absorbing"
    THEN LET at_rate == cursor_at_rate(x.mode.idx)
             x1 == IF at_rate THEN permute_call(x, fail) ELSE x
             absorb_index == IF at_rate THEN 0 ELSE x.mode.idx
         IN  IF Stopped(x1) THEN x1
             ELSE absorb_internal(x1, absorb_index, input, fail)
    ELSE LET x1 == permute_call(x, fail)
         IN  IF Stopped(x1) THEN x1 ELSE absorb_internal(x1, 0, input, fail)

\* a plausible slip: the Absorbing arm is missing, the cursor of either mode
\* is taken for a squeeze cursor
squeeze_field_elements_no_switch(x, num_elements, fail) ==
    LET at_rate == cursor_at_rate(x.mode.idx)
        x1 == IF at_rate THEN permute_call(x, fail) ELSE x
        squeeze_index == IF at_rate THEN 0 ELSE x.mode.idx
    IN  IF Stopped(x1) THEN x1
        ELSE squeeze_internal(x1, squeeze_index, num_elements, fail)

\* a plausible slip: a request for no elements returns at once, as an
\* empty absorb does
squeeze_field_elements_empty_shortcut(x, num_elements, fail) ==
    IF num_elements = 0 THEN x
    ELSE IF x.mode.kind = "Absorbing"
    THEN LET x1 == permute_call(x, fail)
         IN  IF Stopped(x1) THEN x1
             ELSE squeeze_internal(x1, 0, num_elements, fail)
    ELSE LET at_rate == cursor_at_rate(x.mode.idx)
             x1 == IF at_rate THEN permute_call(x, fail) ELSE x
             squeeze_index == IF at_rate THEN 0 ELSE x.mode.idx
         IN  IF Stopped(x1) THEN x1
             ELSE squeeze_internal(x1, squeeze_index, num_elements, fail)

squeeze_field_elements(x, num_elements, fail) ==
    IF x.mode.kind = "Absorbing"
    THEN LET x1 == permute_call(x, fail)
         IN  IF Stopped(x1) THEN x1
             ELSE squeeze_internal(x1, 0, num_elements, fail)
    ELSE LET at_rate == cursor_at_rate(x.mode.idx)
             x1 == IF at_rate THEN permute_call(x, fail) ELSE x
             squeeze_index == IF at_rate THEN 0 ELSE x.mode.idx
         IN  IF Stopped(x1) THEN x1
             ELSE squeeze_internal(x1, squeeze_index, num_elements, fail)

RECURSIVE ExtendUnits(_, _, _)
\* for elem in &src_elements { units.extend_from_slice(&conv(elem)[..u]) }
\* conv: "bytes" or "bits"
ExtendUnits(src_elements, conv, usable) ==
    IF src_elements = << >> THEN << >>
    ELSE Take(IF conv = "bytes" THEN to_bytes(Head(src_elements))
                                ELSE to_bits_le(Head(src_elements)), usable)
         \o ExtendUnits(Tail(src_elements), conv, usable)

squeeze_units(x, num_units, conv, usable, fail) ==
    LET num_elements == (num_units + usable - 1) \div usable
        x1 == squeeze_field_elements(x, num_elements, fail)
    IN  IF Stopped(x1) THEN x1
        ELSE IF fail = ConvFail /\ x1.out # << >> THEN [x1 EXCEPT !.err = TRUE]
        ELSE [x1 EXCEPT !.elems = x1.out,
                        !.out =
                 Take(ExtendUnits(x1.out, conv, usable), num_units)]

squeeze_bytes(x, num_bytes, fail) ==
    squeeze_units(x, num_bytes, "bytes", CAPACITY \div ByteBits, fail)

squeeze_bits(x, num_bits, fail) ==
    squeeze_units(x, num_bits, "bits", CAPACITY, fail)

(***************************************************************************)
(* The native sponge (PoseidonSponge), as section 4.2 of the specification *)
(* describes it.  It has no failure mode.  A run threads a record y with   *)
(* state, mode, out and perms (the number of permutations performed).      *)
(***************************************************************************)
native_permute(y) ==
    [y EXCEPT !.state = permute(y.state, -1).state, !.perms = @ + 1]

RECURSIVE native_add(_, _, _, _)
native_add(y, start, elements, n) ==
    IF n = 0 THEN y
    ELSE [native_add(y, start, elements, n - 1)
            EXCEPT !.state[start + n] = (@ + elements[n]) % P]

RECURSIVE native_absorb_internal(_, _, _)
native_absorb_internal(y, start, elements) ==
    IF start + Len(elements) <= rate
    THEN [native_add(y, start, elements, Len(elements))
            EXCEPT !.mode = Absorbing(start + Len(elements))]
    ELSE native_absorb_internal(
             native_permute(native_add(y, start, elements, rate - start)),
             0, SubSeq(elements, rate - start + 1, Len(elements)))

native_absorb(y, elements) ==
    IF elements = << >> THEN y
    ELSE IF y.mode.kind = "Absorbing"
    THEN IF y.mode.idx = rate
         THEN native_absorb_internal(native_permute(y), 0, elements)
         ELSE native_absorb_internal(y, y.mode.idx, elements)
    ELSE native_absorb_internal(native_permute(y), 0, elements)

native_copy(y, start, n) ==
    [y EXCEPT !.out = @ \o SubSeq(y.state, start + 1, start + n)]

RECURSIVE native_squeeze_internal(_, _, _)
\* "only if the remaining output length after this fill differs from rate,
\*  permute and continue with start = 0"
native_squeeze_internal(y, start, remaining_len) ==
    IF start + remaining_len <= rate
    THEN [native_copy(y, start, remaining_len)
            EXCEPT !.mode = Squeezing(start + remaining_len)]
    ELSE LET filled == rate - start
             y1 == native_copy(y, start, filled)
             y2 == IF remaining_len - filled # rate
                   THEN native_permute(y1) ELSE y1
         IN  native_squeeze_internal(y2, 0, remaining_len - filled)

native_squeeze_field_elements(y, n) ==
    IF y.mode.kind = "Absorbing"
    THEN native_squeeze_internal(native_permute(y), 0, n)
    ELSE IF y.mode.idx = rate
         THEN native_squeeze_internal(native_permute(y), 0, n)
         ELSE native_squeeze_internal(y, y.mode.idx, n)

native_squeeze_units(y, requested, conv, usable) ==
    LET y1 == native_squeeze_field_elements(
                  y, (requested + usable - 1) \div usable)
    IN  [y1 EXCEPT !.out = Take(ExtendUnits(y1.out, conv, usable), requested)]

(***************************************************************************)
(* State.                                                                  *)
(***************************************************************************)
VARIABLES
    state,            \* self.state
    mode,             \* self.mode
    returned,         \* rate indices of the current permutation output
                      \* already returned by a squeeze
    last,             \* the last operation and what it did
    prevRateSqueeze,  \* the operation before the last one, if it was a
                      \* successful squeeze_field_elements(rate)
    nstate,           \* the native sponge run alongside (parity)
    nmode,
    nlast,
    perm              \* the permutation examined on its own: round
                      \* numbers, input, rounds done, result

gvars == <<state, mode, returned, last, prevRateSqueeze>>
nvars == <<nstate, nmode, nlast>>
vars == <<state, mode, returned, last, prevRateSqueeze, nstate, nmode, nlast,
          perm>>

NoRateSqueeze == [first |-> -1, tail |-> 0]

\* a plausible slip: the capacity element is forgotten
new_rate_only ==
    [state |-> [i \in 1 .. rate |-> 0],
     mode |-> Absorbing(0)]

\* PoseidonSpongeVar::new
new ==
    [state |-> [i \in 1 .. (rate + capacity) |-> 0],
     mode |-> Absorbing(0)]

Init ==
    /\ state = new.state
    /\ mode = new.mode
    /\ returned = {}
    /\ last = [op |-> "new", n |-> 0, ok |-> TRUE, out |-> << >>,
               trace |-> << >>, start |-> new.mode, dup |-> FALSE,
               failState |-> << >>, entryState |-> << >>,
               elems |-> << >>]
    /\ prevRateSqueeze = NoRateSqueeze
    /\ nstate = [i \in 1 .. (rate + capacity) |-> 0]
    /\ nmode = Absorbing(0)
    /\ nlast = [out |-> << >>, perms |-> 0]
    /\ perm = Permutation(0, 0, new.state, -1)

\* the running operation's view of the sponge on entry
Ctx ==
    [state |-> state, mode |-> mode, returned |-> returned,
     trace |-> << >>, calls |-> 0, err |-> FALSE, panic |-> FALSE,
     out |-> << >>, elems |-> << >>,
     dup |-> FALSE, failState |-> << >>]

NCtx == [state |-> nstate, mode |-> nmode, out |-> << >>, perms |-> 0]

IsPermute(e) == e.ev = "permute"
IsAccess(e) == e.ev \in {"add", "read"}

Positions(t, Test(_)) == {i \in 1 .. Len(t) : Test(t[i])}
Count(t, Test(_)) == Cardinality(Positions(t, Test))
Max(S) == CHOOSE m \in S : \A k \in S : k <= m
Min(S) == CHOOSE m \in S : \A k \in S : m <= k

\* permutations performed after the last access of trace t
TailPermutes(t) ==
    LET acc == Positions(t, IsAccess)
        from == IF acc = {} THEN 0 ELSE Max(acc)
    IN  Cardinality({i \in Positions(t, IsPermute) : i > from})

\* permutations performed before the first access of trace t
HeadPermutes(t) ==
    LET acc == Positions(t, IsAccess)
        upto == IF acc = {} THEN Len(t) + 1 ELSE Min(acc)
    IN  Cardinality({i \in Positions(t, IsPermute) : i < upto})

\* rate index of the first access of trace t (-1: none)
FirstAccess(t) ==
    LET acc == Positions(t, IsAccess)
    IN  IF acc = {} THEN -1 ELSE t[Min(acc)].idx

\* the operation returns: its effects become the sponge's fields
Step(op, n, x) ==
    /\ state' = x.state
    /\ mode' = x.mode
    /\ returned' = IF ~Stopped(x) THEN x.returned
                   ELSE IF Count(x.trace, IsPermute) > 0 THEN {}
                   ELSE returned
    /\ last' = [op |-> op, n |-> n, ok |-> ~Stopped(x),
                out |-> IF Stopped(x) THEN << >> ELSE x.out,
                trace |-> x.trace, start |-> mode,
                dup |-> ~Stopped(x) /\ x.dup, failState |-> x.failState,
                entryState |-> IF Stopped(x) THEN state ELSE << >>,
                elems |-> IF Stopped(x) THEN << >> ELSE x.elems]
    /\ prevRateSqueeze' =
           IF last.op = "squeeze_field_elements" /\ last.ok /\ last.n = rate
           THEN [first |-> FirstAccess(last.trace),
                 tail |-> TailPermutes(last.trace)]
           ELSE NoRateSqueeze
    /\ UNCHANGED perm

NStep(y) ==
    /\ nstate' = y.state
    /\ nmode' = y.mode
    /\ nlast' = [out |-> y.out, perms |-> y.perms]

\* the input of length n: nonzero elements, different at neighbouring
\* positions
Input(n) == [i \in 1 .. n |-> 1 + ((i - 1) % (P - 1))]

AbsorbInputs == {Input(n) : n \in 0 .. MaxAbsorbLen}

(***************************************************************************)
(* The operations of the gadget.                                           *)
(*                                                                         *)
(* A caller that got an error back makes no further call on the instance   *)
(* (section 7: after a failure the instance "must be considered unusable   *)
(* for further calls"), so every operation is issued after a success; a    *)
(* panic ends the program.                                                 *)
(***************************************************************************)
Usable == last.ok

Absorb ==
    \E input \in AbsorbInputs, fail \in FailPoints :
        /\ Usable
        /\ Step("absorb", Len(input), absorb(Ctx, input, fail))
        /\ UNCHANGED nvars

SqueezeFieldElements ==
    \E n \in 0 .. MaxSqueeze, fail \in FailPoints :
        /\ Usable
        /\ Step("squeeze_field_elements", n,
                squeeze_field_elements(Ctx, n, fail))
        /\ UNCHANGED nvars

SqueezeBytes ==
    \E n \in 0 .. MaxBytes, fail \in FailPoints :
        /\ Usable
        /\ Step("squeeze_bytes", n, squeeze_bytes(Ctx, n, fail))
        /\ UNCHANGED nvars

SqueezeBits ==
    \E n \in 0 .. MaxBits, fail \in FailPoints :
        /\ Usable
        /\ Step("squeeze_bits", n, squeeze_bits(Ctx, n, fail))
        /\ UNCHANGED nvars

Next ==
    \/ Absorb
    \/ SqueezeFieldElements
    \/ SqueezeBytes
    \/ SqueezeBits

Spec == Init /\ [][Next]_vars

(***************************************************************************)
(* The gadget and the native sponge driven by the same calls (the shape of *)
(* tests::absorb_test).  The comparison stops at the first difference, as  *)
(* the test's assert_eq! does.                                             *)
(***************************************************************************)
\* permute on its own, on the result of the permutation before, for a
\* sponge constructed with any round numbers within the bounds
Permute ==
    \E full \in 0 .. MaxFullRounds, partial \in 0 .. MaxPartialRounds :
        \E failRound \in -1 .. (full + partial - 1) :
            /\ perm.ok
            /\ perm' = Permutation(full, partial, perm.out, failRound)
            /\ UNCHANGED <<gvars, nvars>>

NextPermute == Permute

SpecPermute == Init /\ [][NextPermute]_vars

SqueezeOps == {"squeeze_field_elements", "squeeze_bytes", "squeeze_bits"}

ParityHolds ==
    /\ nlast.out = last.out
    /\ nlast.perms = Count(last.trace, IsPermute)

PAbsorb ==
    \E input \in AbsorbInputs :
        /\ ParityHolds
        /\ Step("absorb", Len(input), absorb(Ctx, input, NoFail))
        /\ NStep(native_absorb(NCtx, input))

PSqueezeFieldElements ==
    \E n \in 0 .. MaxSqueeze :
        /\ ParityHolds
        /\ Step("squeeze_field_elements", n,
                squeeze_field_elements(Ctx, n, NoFail))
        /\ NStep(native_squeeze_field_elements(NCtx, n))

PSqueezeBytes ==
    \E n \in 0 .. MaxBytes :
        /\ ParityHolds
        /\ Step("squeeze_bytes", n, squeeze_bytes(Ctx, n, NoFail))
        /\ NStep(native_squeeze_units(NCtx, n, "bytes",
                                      CAPACITY \div ByteBits))

PSqueezeBits ==
    \E n \in 0 .. MaxBits :
        /\ ParityHolds
        /\ Step("squeeze_bits", n, squeeze_bits(Ctx, n, NoFail))
        /\ NStep(native_squeeze_units(NCtx, n, "bits", CAPACITY))

NextParity ==
    \/ PAbsorb
    \/ PSqueezeFieldElements
    \/ PSqueezeBytes
    \/ PSqueezeBits

SpecParity == Init /\ [][NextParity]_vars

(***************************************************************************)
(* Properties.                                                             *)
(***************************************************************************)
IsEntry(e) == e.ev \in {"absorb_internal", "squeeze_internal"}
IsPermuteCall(e) == e.ev \in {"permute", "permute_failed"}

\* the last operation switched the mode: a non-empty absorb issued while
\* Squeezing, or a squeeze issued while Absorbing, that got past its input
\* conversion
ModeSwitch ==
    \/ /\ last.op = "absorb"
       /\ last.n > 0
       /\ last.start.kind = "Squeezing"
       /\ last.trace # << >>
    \/ /\ last.op \in SqueezeOps
       /\ last.start.kind = "Absorbing"

\* C1: a non-empty absorb issued while Squeezing, and a squeeze issued while
\* Absorbing, first calls the permutation, exactly once before the operation
\* adds to or reads from the state, and then starts at rate index 0.
C1_ModeSwitchPermutesOnce ==
    ModeSwitch =>
        /\ last.trace # << >>
        /\ IsPermuteCall(last.trace[1])
        /\ last.ok =>
              /\ HeadPermutes(last.trace) = 1
              /\ Len(last.trace) >= 2
              /\ IsEntry(last.trace[2])
              /\ last.trace[2].idx = 0
              /\ FirstAccess(last.trace) \in {-1, 0}
              /\ (FirstAccess(last.trace) = -1) => (last.n = 0)

C1_Witness ==
    /\ ModeSwitch
    /\ last.ok
    /\ last.op = "absorb"
    /\ last.start = Squeezing(1)
    /\ FirstAccess(last.trace) = 0

\* C2 (as stated): in any reachable state, squeeze_field_elements(rate)
\* followed directly by squeeze_field_elements(1) performs exactly one
\* permutation between the last element of the first call and the element
\* of the second.
C2_RateBoundaryAnyCursor ==
    (/\ prevRateSqueeze.first # -1
     /\ last.op = "squeeze_field_elements"
     /\ last.n = 1
     /\ last.ok)
    => prevRateSqueeze.tail + HeadPermutes(last.trace) = 1

\* C2 (amended): when the first call starts reading at rate index 0 (the
\* mode was Absorbing, or Squeezing with cursor 0 or rate),
\* squeeze_field_elements(rate) followed directly by
\* squeeze_field_elements(1) performs exactly one permutation between the
\* last element of the first call and the element of the second.
C2_RateBoundaryFromBlockStart ==
    (/\ prevRateSqueeze.first = 0
     /\ last.op = "squeeze_field_elements"
     /\ last.n = 1
     /\ last.ok)
    => prevRateSqueeze.tail + HeadPermutes(last.trace) = 1

C2_Witness ==
    /\ prevRateSqueeze.first = 0
    /\ last.op = "squeeze_field_elements"
    /\ last.n = 1
    /\ last.ok
    /\ last.start = Squeezing(rate)
    /\ HeadPermutes(last.trace) = 1

\* C3: a successful squeeze_field_elements(n) returns exactly n elements,
\* each read from a rate index below rate, and in a run of squeezes no rate
\* position of one permutation output is returned twice.
C3_SqueezeReturnsFreshPositions ==
    (last.op = "squeeze_field_elements" /\ last.ok) =>
        /\ Len(last.out) = last.n
        /\ Count(last.trace, LAMBDA e : e.ev = "read") = last.n
        /\ \A i \in 1 .. Len(last.trace) :
              last.trace[i].ev = "read" =>
                  last.trace[i].idx \in 0 .. (rate - 1)
        /\ ~last.dup

\* C4: from one sponge state, squeeze_bytes(n) returns exactly n bytes, the
\* leading n bytes of what squeeze_bytes(n + k) returns from that state.
C4_BytesArePrefix ==
    last.ok =>
        \A n \in 0 .. MaxBytes : \A k \in 0 .. (MaxBytes - n) :
            LET short == squeeze_bytes(Ctx, n, NoFail)
                long == squeeze_bytes(Ctx, n + k, NoFail)
            IN  /\ Len(short.out) = n
                /\ short.out = Take(long.out, n)

\* C5: after any sequence of successful calls the cursor stored in the mode
\* is between 0 and rate.
C5_CursorInRange ==
    /\ mode.kind \in {"Absorbing", "Squeezing"}
    /\ mode.idx \in 0 .. rate

C5_Witness ==
    /\ last.ok
    /\ mode = Squeezing(rate)
    /\ last.start = Absorbing(rate)

\* C6: no element is added to or read from the state at position rate,
\* absorb_internal and squeeze_internal are never entered with start index
\* rate, and an operation that finds the cursor at rate and touches the state
\* permutes first and continues from index 0.
C6_CursorAtRateIsTransient ==
    /\ \A i \in 1 .. Len(last.trace) :
          (IsAccess(last.trace[i]) \/ IsEntry(last.trace[i])) =>
              last.trace[i].idx \in 0 .. (rate - 1)
    /\ (last.start.idx = rate /\ last.trace # << >>) =>
          /\ IsPermuteCall(last.trace[1])
          /\ last.ok =>
                /\ Len(last.trace) >= 2
                /\ IsEntry(last.trace[2])
                /\ last.trace[2].idx = 0

C6_Witness ==
    /\ last.ok
    /\ last.op = "absorb"
    /\ last.start = Absorbing(rate)
    /\ Count(last.trace, IsAccess) > 0

\* C7: absorb of an empty sequence performs no permutation and leaves the
\* state vector and the mode, cursor included, unchanged.
C7_EmptyAbsorbIsNoOp ==
    [][(last'.op = "absorb" /\ last'.n = 0) =>
          /\ state' = state
          /\ mode' = mode
          /\ Count(last'.trace, IsPermuteCall) = 0]_vars

C7_Witness ==
    /\ last.op = "absorb"
    /\ last.n = 0
    /\ last.ok
    /\ mode = Squeezing(rate)

\* C8: driven by the same calls, the gadget and the native sponge of
\* section 4.2 perform equally many permutations in every call and return
\* equal outputs.
C8_Parity == ParityHolds

\* C9: a fresh sponge has an all-zero state of length rate + capacity and
\* mode Absorbing{0}; a successful non-empty absorb leaves the mode
\* Absorbing, a successful squeeze leaves it Squeezing, and after every
\* successful call both operations can be called again: no absorb and no
\* squeeze panics.
C9_Lifecycle ==
    /\ last.op = "new" =>
          /\ Len(state) = rate + capacity
          /\ \A i \in 1 .. Len(state) : state[i] = 0
          /\ mode = Absorbing(0)
    /\ (last.op = "absorb" /\ last.n > 0 /\ last.ok) =>
          mode.kind = "Absorbing"
    /\ (last.op \in SqueezeOps /\ last.ok) => mode.kind = "Squeezing"
    /\ last.ok =>
          /\ \A input \in AbsorbInputs : ~absorb(Ctx, input, NoFail).panic
          /\ \A n \in 0 .. MaxSqueeze :
                ~squeeze_field_elements(Ctx, n, NoFail).panic

C9_Witness ==
    /\ last.op = "absorb"
    /\ last.n > 0
    /\ last.ok
    /\ last.start.kind = "Squeezing"
    /\ mode.kind = "Absorbing"

\* C10: when a round step fails, permute returns the error and the state
\* vector is what it was when permute was called.
C10_FailedPermuteKeepsState ==
    (~last.ok /\ last.failState # << >>) => state = last.failState

C10_Witness ==
    /\ ~last.ok
    /\ last.failState # << >>
    /\ state = last.failState
    /\ last.op = "absorb"
    /\ Count(last.trace, LAMBDA e : e.ev = "add") > 0

\* C11: when a step of an absorb or squeeze call fails, the state vector
\* and the mode after the failed call equal their values before the call.
C11_FailedCallLeavesSpongeUntouched ==
    ~last.ok => (state = last.entryState /\ mode = last.start)

\* C12: when a permutation fails inside an operation, the operation returns
\* the error at that point: the failed permute is the last thing it did, it
\* returns no output and it does not update the mode.
C12_PermuteErrorPropagates ==
    \A i \in 1 .. Len(last.trace) :
        last.trace[i].ev = "permute_failed" =>
            /\ i = Len(last.trace)
            /\ ~last.ok
            /\ last.out = << >>
            /\ mode = last.start

C12_Witness ==
    /\ last.op = "squeeze_bytes"
    /\ ~last.ok
    /\ Len(last.trace) > 2
    /\ last.trace[Len(last.trace)].ev = "permute_failed"
    /\ Count(last.trace, LAMBDA e : e.ev = "read") > 0

IsChunk(e) == e.ev = "chunk"

\* the permute call, if any, that follows event i of the last operation
PermuteFollows(i) ==
    i < Len(last.trace) /\ IsPermuteCall(last.trace[i + 1])

RECURSIVE AccessesBefore(_, _)
AccessesBefore(t, i) ==
    IF i <= 1 \/ ~IsAccess(t[i - 1]) THEN 0
    ELSE 1 + AccessesBefore(t, i - 1)

\* the chunk event before event i of trace t (0: none)
PrevChunk(t, i) ==
    LET before == {j \in 1 .. (i - 1) : IsChunk(t[j])}
    IN  IF before = {} THEN 0 ELSE Max(before)

\* C16: absorb(a) followed by absorb(b) leaves the same state vector and
\* mode, after the same number of permutations, as absorb(a ++ b); every
\* element is added to the element at the next rate position.
C16_AbsorbComposes ==
    last.ok =>
        /\ \A n \in 0 .. (MaxAbsorbLen + 1) :
              LET whole == Input(n)
                  once == absorb(Ctx, whole, NoFail)
                  permutes == Count(once.trace, IsPermute)
              IN  /\ Count(once.trace, LAMBDA e : e.ev = "add") = n
                  /\ \A k \in 0 .. n :
                        LET first == absorb(Ctx, SubSeq(whole, 1, k), NoFail)
                            second == absorb(first, SubSeq(whole, k + 1, n),
                                             NoFail)
                        IN  /\ second.state = once.state
                            /\ second.mode = once.mode
                            /\ Count(second.trace, IsPermute) = permutes
        /\ (mode.kind = "Absorbing" /\ mode.idx < rate) =>
              \A v \in {1, P - 1} :
                  absorb(Ctx, <<v>>, NoFail).state =
                      [state EXCEPT ![mode.idx + 1] = (@ + v) % P]

C16_Witness ==
    /\ last.op = "absorb"
    /\ last.ok
    /\ last.n = 2
    /\ last.start = Absorbing(1)
    /\ Count(last.trace, IsPermute) = 1
    /\ mode = Absorbing(1)

\* C17: squeeze_bits(n) / squeeze_bytes(n) squeezes exactly ceil(n / u)
\* elements and returns exactly n units, unit j being the low-order unit
\* number (j mod u) of squeezed element number floor(j / u).
C17_UnitsOfSqueezedElements ==
    (last.op \in {"squeeze_bytes", "squeeze_bits"} /\ last.ok) =>
        LET u == IF last.op = "squeeze_bytes"
                 THEN CAPACITY \div ByteBits ELSE CAPACITY
            base == IF last.op = "squeeze_bytes" THEN 2 ^ ByteBits ELSE 2
            m == Len(last.elems)
        IN  /\ m * u >= last.n
            /\ m > 0 => (m - 1) * u < last.n
            /\ Count(last.trace, LAMBDA e : e.ev = "read") = m
            /\ Len(last.out) = last.n
            /\ \A j \in 0 .. (last.n - 1) :
                  last.out[j + 1] =
                      (last.elems[(j \div u) + 1] \div (base ^ (j % u)))
                          % base

C17_Witness ==
    /\ last.op = "squeeze_bits"
    /\ last.ok
    /\ last.n = 3
    /\ Len(last.elems) = 2
    /\ last.elems[2] >= 2

\* C18: the capacity portion of the state is changed only by the
\* permutation: absorb adds only below rate, squeeze reads only below rate
\* and writes no state element, and the state keeps length rate + capacity.
C18_CapacityChangedOnlyByPermute ==
    [][/\ Len(state') = rate + capacity
       /\ \A i \in 1 .. Len(last'.trace) :
             IsAccess(last'.trace[i]) =>
                 last'.trace[i].idx \in 0 .. (rate - 1)
       /\ Count(last'.trace, IsPermute) = 0 =>
             /\ \A i \in (rate + 1) .. (rate + capacity) :
                   state'[i] = state[i]
             /\ last'.op \in SqueezeOps => state' = state]_vars

C18_Witness ==
    /\ last.op = "absorb"
    /\ last.ok
    /\ last.n = 1
    /\ last.start = Absorbing(1)
    /\ Count(last.trace, IsPermute) = 0
    /\ state[rate + capacity] # 0

\* C19: every iteration of the absorb_internal and squeeze_internal loops
\* that does not return consumes at least one element (rate minus its start
\* index), so the remaining length strictly decreases from one iteration to
\* the next.
C19_LoopsConsume ==
    \A i \in 1 .. Len(last.trace) :
        IsChunk(last.trace[i]) =>
            /\ rate - last.trace[i].idx >= 1
            /\ AccessesBefore(last.trace, i) = rate - last.trace[i].idx
            /\ last.trace[i].rem >= 1
            /\ PrevChunk(last.trace, i) # 0 =>
                  last.trace[i].rem
                      < last.trace[PrevChunk(last.trace, i)].rem

C19_Witness ==
    /\ last.ok
    /\ \E i \in 1 .. Len(last.trace) :
          /\ IsChunk(last.trace[i])
          /\ PrevChunk(last.trace, i) # 0

\* C20: squeeze_field_elements(0), and so squeeze_bytes(0) and
\* squeeze_bits(0), called in Absorbing mode returns an empty output but
\* performs one permutation and sets the mode to Squeezing{0}; called in
\* Squeezing mode with the cursor below rate it changes neither state nor
\* mode.
C20_EmptySqueeze ==
    [][(last'.op \in SqueezeOps /\ last'.n = 0 /\ last'.ok) =>
          /\ last'.out = << >>
          /\ mode.kind = "Absorbing" =>
                /\ Count(last'.trace, IsPermute) = 1
                /\ state' = permute(state, -1).state
                /\ mode' = Squeezing(0)
          /\ (mode.kind = "Squeezing" /\ mode.idx < rate) =>
                /\ last'.trace = <<Event("squeeze_internal", mode.idx)>>
                /\ state' = state
                /\ mode' = mode]_vars

C20_Witness ==
    /\ last.op = "squeeze_bytes"
    /\ last.n = 0
    /\ last.ok
    /\ last.start.kind = "Absorbing"
    /\ mode = Squeezing(0)
    /\ Count(last.trace, IsPermute) = 1

\* the state a round of perm starts from
RoundInput(k) == IF k = 1 THEN perm.input ELSE perm.log[k - 1].mds

\* C15: permute applies exactly full_rounds + partial_rounds rounds, on
\* rows 0, 1, 2, ... of ark in order, each round being ark, then S-box,
\* then mds; the rounds half .. half + partial_rounds - 1, half =
\* floor(full_rounds / 2), raise only the last element and every other
\* round raises every element, also when full_rounds is odd.
C15_PermuteRounds ==
    LET half == perm.full_rounds \div 2
        log == perm.log
    IN  /\ perm.ok =>
              /\ Len(log) = perm.full_rounds + perm.partial_rounds
              /\ perm.out = RoundInput(Len(log) + 1)
        /\ (perm.ok /\ perm.full_rounds = full_rounds
                    /\ perm.partial_rounds = partial_rounds) =>
              perm.out = permute(perm.input, -1).state
        /\ \A k \in 1 .. Len(log) :
              /\ log[k].round = k - 1
              /\ log[k].ark =
                     [i \in 1 .. Width |-> (RoundInput(k)[i] + ark[k][i]) % P]
              /\ log[k].s_box =
                     IF k - 1 \in half .. (half + perm.partial_rounds - 1)
                     THEN [i \in 1 .. Width |->
                              IF i = Width
                              THEN (log[k].ark[i] ^ alpha) % P
                              ELSE log[k].ark[i]]
                     ELSE [i \in 1 .. Width |-> (log[k].ark[i] ^ alpha) % P]
              /\ log[k].mds =
                     [i \in 1 .. Width |->
                         (mds[i][1] * log[k].s_box[1]
                              + mds[i][2] * log[k].s_box[2]
                              + mds[i][3] * log[k].s_box[3]) % P]

C15_Witness ==
    /\ perm.ok
    /\ perm.full_rounds = 3
    /\ perm.partial_rounds = 2
    /\ Len(perm.log) = 5
    /\ perm.log[2].ark[1] \in {2, 3}
    /\ perm.log[2].s_box[1] = perm.log[2].ark[1]

====
